---- MODULE Spec2Model ----
(***************************************************************************)
(* A model of the two console programs of the repository:                  *)
(*   "stub"  src/simple_webrtc_client_stub.cpp       (SimpleWebRTCClient)  *)
(*   "real"  src/WebRTC_Video_Streaming/build/real_webrtc_client.cpp       *)
(*                                                    (RealWebRTCClient)   *)
(* A behaviour is one process run of one build (program, platform, value   *)
(* of WEBRTC_HEADERS_AVAILABLE), optionally followed by further runs of    *)
(* the same build.  Standard output and standard error are sequences of    *)
(* lines.  Non-ASCII glyphs that open some banner lines are left out of    *)
(* the line texts; nothing in the programs reads them.                     *)
(***************************************************************************)
EXTENDS Integers, Sequences, FiniteSets, TLC

VARIABLES
    prog,      \* which program was built: "stub" or "real"
    win32,     \* TRUE iff _WIN32 is defined in the build
    flag,      \* value of WEBRTC_HEADERS_AVAILABLE in the build (0 or 1)
    pc,        \* position of main
    ip,        \* index of the next statement of Run's step list
    out,       \* lines written to std::cout by this run
    err,       \* lines written to std::cerr by this run
    calls,     \* the operations performed so far, in order, with their effect
    stdin,     \* unread content of standard input
    reads,     \* results of the std::cin.get() calls made so far
    wsaRefs,   \* socket layer: successful WSAStartup calls not yet cleaned up
    wsaLog,    \* socket layer: every call made to it, in order
    client,    \* the client object's members (the two library handles)
    exc,       \* the exception in flight or caught ("" when none)
    exitCode,  \* value returned by main (NoExit while it is running)
    offer,     \* state of the asynchronous CreateOffer request
    history    \* the finished earlier runs of the same build

vars == <<prog, win32, flag, pc, ip, out, err, calls, stdin, reads,
          wsaRefs, wsaLog, client, exc, exitCode, offer, history>>

----------------------------------------------------------------------------
(* Bounds of the model *)

MaxInput == 1      \* longest content of standard input
MaxDevices == 1    \* most video capture devices the platform reports
MaxRuns == 2       \* runs of the same build compared with each other
MaxCalls == 3      \* direct method calls made by the test harness

(* Program constants *)

SubstrLen == 50    \* message.substr(0, 50)

NoExit == 0 - 1     \* exitCode while main has not returned

Chars == {"\n", "x"}

RECURSIVE SeqsUpTo(_, _)
SeqsUpTo(S, n) ==
    IF n = 0 THEN {<<>>}
    ELSE LET shorter == SeqsUpTo(S, n - 1)
         IN  shorter \cup {Append(s, x) : s \in {t \in shorter : Len(t) = n - 1}, x \in S}

Inputs == SeqsUpTo(Chars, MaxInput)

----------------------------------------------------------------------------
(* The compile-time flag, per platform *)

WEBRTC_HEADERS_AVAILABLE_enabled_off_windows(w) == IF w THEN 0 ELSE 1

WEBRTC_HEADERS_AVAILABLE(w) == IF w THEN 0 ELSE 0

----------------------------------------------------------------------------
(* The client object.  Its only members are the two library handles, which *)
(* exist only when the flag is enabled; a default-constructed              *)
(* scoped_refptr is null.                                                  *)

NullClient == [peer_connection_factory_ |-> "null", peer_connection_ |-> "null"]

(* What one method call does: the lines it writes, what it returns, the    *)
(* client's members afterwards, and whether it left by an exception.       *)
(* req lists the asynchronous library requests the call issued.            *)
R(o, e, r, c, t) ==
    [out |-> o, err |-> e, ret |-> r, client |-> c, thrown |-> t, req |-> <<>>]

NoEnv == "none"

----------------------------------------------------------------------------
(* SimpleWebRTCClient's methods *)

(* Variant: the stub keeps a handle and creates the connection only once *)
Simple_CreatePeerConnection_keeps_handle(c) ==
    IF c.peer_connection_ = "null"
      THEN R(<<"Creating PeerConnection...",
               "PeerConnection created successfully (stub)!">>, <<>>, "true",
             [c EXCEPT !.peer_connection_ = "obj"], "")
      ELSE R(<<"Creating PeerConnection...">>, <<>>, "true", c, "")

Simple_CreatePeerConnection(c) ==
    R(<<"Creating PeerConnection...",
        "PeerConnection created successfully (stub)!">>, <<>>, "true", c, "")

Simple_AddVideoStream(c) ==
    R(<<"Adding video stream...",
        "Video stream added successfully (stub)!">>, <<>>, "true", c, "")

Simple_AddAudioStream(c) ==
    R(<<"Adding audio stream...",
        "Audio stream added successfully (stub)!">>, <<>>, "true", c, "")

Simple_CreateOffer(c) ==
    R(<<"Creating offer...",
        "Offer created successfully (stub)!">>, <<>>, "void", c, "")

(* std::string::substr(0, n): the first n characters, or all of them *)
Substr0(s, n) == IF Len(s) <= n THEN s ELSE SubSeq(s, 1, n)

Simple_HandleSignaling(c, message) ==
    R(<<"Handling signaling message: " \o Substr0(message, SubstrLen) \o "...">>,
      <<>>, "void", c, "")

Simple_StartVideoCapture(c) ==
    R(<<"Starting video capture...",
        "Video capture started (stub)!">>, <<>>, "void", c, "")

Simple_RenderVideo(c) ==
    R(<<"Rendering video...",
        "Video rendering active (stub)!">>, <<>>, "void", c, "")

----------------------------------------------------------------------------
(* RealWebRTCClient's methods.  f is the flag; e is what the library and   *)
(* the platform answer in the call (read only when the flag is enabled).   *)

InitEnv == {"ok", "no_task_queue", "no_environment", "no_factory", "throw"}
PeerConnectionEnv == {"ok", "null"}
TrackEnv == {"ok", "no_source", "no_track", "add_failed", "throw"}

(* The platform's video devices: whether CreateDeviceInfo() gives an       *)
(* object, and for each device whether GetDeviceName() succeeds.           *)
DeviceEnv == [info : BOOLEAN, names : SeqsUpTo(BOOLEAN, MaxDevices)]
VideoEnv == [dev : DeviceEnv, made : BOOLEAN, lib : TrackEnv]

(* Variant: the result of the factory creation is not tested *)
Real_InitializeWebRTC_without_null_check(c, f, e) ==
    LET start == <<"Initializing WebRTC...">>
    IN  IF f = 1 THEN
          CASE e = "no_task_queue" ->
                 R(start, <<"Failed to create task queue factory">>, "false", c, "")
            [] e = "no_environment" ->
                 R(start, <<"Failed to create environment">>, "false", c, "")
            [] e = "throw" ->
                 R(start, <<"WebRTC initialization failed: std::exception">>,
                   "false", c, "")
            [] OTHER ->
                 R(start \o <<"WebRTC initialized successfully!">>, <<>>, "true",
                   [c EXCEPT !.peer_connection_factory_ =
                        IF e = "no_factory" THEN "null" ELSE "obj"], "")
        ELSE
          R(start \o <<"DEMO: WebRTC initialization simulated",
                       "  - CreateDefaultTaskQueueFactory()",
                       "  - CreateEnvironment()",
                       "  - CreateModularPeerConnectionFactory()",
                       "  - CreateBuiltinAudioEncoderFactory()",
                       "  - CreateBuiltinVideoEncoderFactory()">>,
            <<>>, "true", c, "")

Real_InitializeWebRTC(c, f, e) ==
    LET start == <<"Initializing WebRTC...">>
    IN  IF f = 1 THEN
          CASE e = "no_task_queue" ->
                 R(start, <<"Failed to create task queue factory">>, "false", c, "")
            [] e = "no_environment" ->
                 R(start, <<"Failed to create environment">>, "false", c, "")
            [] e = "throw" ->
                 R(start, <<"WebRTC initialization failed: std::exception">>,
                   "false", c, "")
            [] e = "no_factory" ->
                 R(start, <<"Failed to create peer connection factory">>, "false",
                   [c EXCEPT !.peer_connection_factory_ = "null"], "")
            [] OTHER ->
                 R(start \o <<"WebRTC initialized successfully!">>, <<>>, "true",
                   [c EXCEPT !.peer_connection_factory_ = "obj"], "")
        ELSE
          R(start \o <<"DEMO: WebRTC initialization simulated",
                       "  - CreateDefaultTaskQueueFactory()",
                       "  - CreateEnvironment()",
                       "  - CreateModularPeerConnectionFactory()",
                       "  - CreateBuiltinAudioEncoderFactory()",
                       "  - CreateBuiltinVideoEncoderFactory()">>,
            <<>>, "true", c, "")

(* Variant: the factory handle is tested whatever the flag *)
Real_CreatePeerConnection_checks_always(c, f, e) ==
    LET start == <<"Creating PeerConnection...">>
    IN  IF c.peer_connection_factory_ = "null" THEN
          R(start, <<"Peer connection factory not initialized">>, "false", c, "")
        ELSE IF f = 1 THEN
          IF e = "null" THEN
            R(start, <<"Failed to create peer connection">>, "false",
              [c EXCEPT !.peer_connection_ = "null"], "")
          ELSE
            R(start \o <<"PeerConnection created successfully!">>, <<>>, "true",
              [c EXCEPT !.peer_connection_ = "obj"], "")
        ELSE
          R(start \o <<"DEMO: PeerConnection creation simulated",
                       "  - PeerConnectionInterface::RTCConfiguration config",
                       "  - config.sdp_semantics = SdpSemantics::kUnifiedPlan",
                       "  - peer_connection_factory_->CreatePeerConnection()">>,
            <<>>, "true", c, "")

Real_CreatePeerConnection(c, f, e) ==
    LET start == <<"Creating PeerConnection...">>
    IN  IF f = 1 THEN
          IF c.peer_connection_factory_ = "null" THEN
            R(start, <<"Peer connection factory not initialized">>, "false", c, "")
          ELSE IF e = "null" THEN
            R(start, <<"Failed to create peer connection">>, "false",
              [c EXCEPT !.peer_connection_ = "null"], "")
          ELSE
            R(start \o <<"PeerConnection created successfully!">>, <<>>, "true",
              [c EXCEPT !.peer_connection_ = "obj"], "")
        ELSE
          R(start \o <<"DEMO: PeerConnection creation simulated",
                       "  - PeerConnectionInterface::RTCConfiguration config",
                       "  - config.sdp_semantics = SdpSemantics::kUnifiedPlan",
                       "  - peer_connection_factory_->CreatePeerConnection()">>,
            <<>>, "true", c, "")

(* The private helper: "obj" for a capturer, "null" for nullptr.  With no   *)
(* device it asks for a test pattern, otherwise for the first camera; made  *)
(* is whether the library then gives a capturer.                            *)
CreateVideoCapturer(dev, made) ==
    IF ~dev.info THEN "null"
    ELSE IF Len(dev.names) = 0 THEN (IF made THEN "obj" ELSE "null")
    ELSE IF dev.names[1] THEN (IF made THEN "obj" ELSE "null")
    ELSE "null"

Real_AddVideoStream(c, f, e) ==
    LET start == <<"Adding video stream...">>
    IN  IF f = 1 THEN
          IF c.peer_connection_factory_ = "null" \/ c.peer_connection_ = "null" THEN
            R(start, <<"Peer connection not initialized">>, "false", c, "")
          ELSE IF CreateVideoCapturer(e.dev, e.made) = "null" THEN
            R(start, <<"Failed to create video capturer">>, "false", c, "")
          ELSE
            CASE e.lib = "no_source" ->
                   R(start, <<"Failed to create video source">>, "false", c, "")
              [] e.lib = "no_track" ->
                   R(start, <<"Failed to create video track">>, "false", c, "")
              [] e.lib = "throw" ->
                   R(start, <<>>, "throw", c, "std::bad_alloc")
              [] e.lib = "add_failed" ->
                   R(start, <<"Failed to add video track: error">>, "false", c, "")
              [] OTHER ->
                   R(start \o <<"Video stream added successfully!">>, <<>>, "true", c, "")
        ELSE
          R(start \o <<"DEMO: Video stream addition simulated",
                       "  - VideoCaptureFactory::CreateDeviceInfo()",
                       "  - CreateVideoCapturer()",
                       "  - peer_connection_factory_->CreateVideoSource()",
                       "  - peer_connection_factory_->CreateVideoTrack()",
                       "  - peer_connection_->AddTrack()">>,
            <<>>, "true", c, "")

Real_AddAudioStream(c, f, e) ==
    LET start == <<"Adding audio stream...">>
    IN  IF f = 1 THEN
          IF c.peer_connection_factory_ = "null" \/ c.peer_connection_ = "null" THEN
            R(start, <<"Peer connection not initialized">>, "false", c, "")
          ELSE
            CASE e = "no_source" ->
                   R(start, <<"Failed to create audio source">>, "false", c, "")
              [] e = "no_track" ->
                   R(start, <<"Failed to create audio track">>, "false", c, "")
              [] e = "throw" ->
                   R(start, <<>>, "throw", c, "std::bad_alloc")
              [] e = "add_failed" ->
                   R(start, <<"Failed to add audio track: error">>, "false", c, "")
              [] OTHER ->
                   R(start \o <<"Audio stream added successfully!">>, <<>>, "true", c, "")
        ELSE
          R(start \o <<"DEMO: Audio stream addition simulated",
                       "  - peer_connection_factory_->CreateAudioSource()",
                       "  - peer_connection_factory_->CreateAudioTrack()",
                       "  - peer_connection_->AddTrack()">>,
            <<>>, "true", c, "")

Real_CreateOffer(c, f, e) ==
    LET start == <<"Creating offer...">>
    IN  IF f = 1 THEN
          IF c.peer_connection_ = "null" THEN
            R(start, <<"Peer connection not initialized">>, "void", c, "")
          ELSE
            [R(start, <<>>, "void", c, "") EXCEPT !.req = <<"CreateOffer">>]
        ELSE
          R(start \o <<"DEMO: SDP offer creation simulated",
                       "  - peer_connection_->CreateOffer()",
                       "  - OnSuccess() callback with SessionDescriptionInterface",
                       "  - peer_connection_->SetLocalDescription()">>,
            <<>>, "void", c, "")

(* The "Device i: name" lines of the devices whose name can be read *)
RECURSIVE DeviceLines(_, _)
DeviceLines(names, i) ==
    IF i >= Len(names) THEN <<>>
    ELSE (IF names[i + 1]
            THEN <<"Device " \o ToString(i) \o ": camera" \o ToString(i)>>
            ELSE <<>>) \o DeviceLines(names, i + 1)

Real_StartVideoCapture(c, f, e) ==
    LET start == <<"Starting video capture...">>
    IN  IF f = 1 THEN
          IF ~e.info THEN
            R(start, <<"Failed to create video device info">>, "void", c, "")
          ELSE
            R(start \o <<"Found " \o ToString(Len(e.names)) \o " video devices">>
                    \o DeviceLines(e.names, 0)
                    \o <<"Video capture initialized!">>, <<>>, "void", c, "")
        ELSE
          R(start \o <<"DEMO: Video capture initialization simulated",
                       "  - VideoCaptureFactory::CreateDeviceInfo()",
                       "  - device_info->NumberOfDevices()",
                       "  - device_info->GetDeviceName()",
                       "  - CreateDeviceCapturer() or CreateSquareFrameGenerator()">>,
            <<>>, "void", c, "")

Real_RenderVideo(c) ==
    R(<<"Rendering video...", "Video rendering initialized!">>, <<>>, "void", c, "")

----------------------------------------------------------------------------
(* The socket layer (Winsock).  WSAStartup either succeeds, taking a        *)
(* reference, or fails; WSACleanup releases a reference, or fails with      *)
(* WSANOTINITIALISED when there is none.                                    *)

WSAStartup(refs, ok) ==
    IF ok THEN [refs |-> refs + 1, log |-> <<"WSAStartup:0">>]
    ELSE [refs |-> refs, log |-> <<"WSAStartup:error">>]

WSACleanup(refs) ==
    IF refs > 0 THEN [refs |-> refs - 1, log |-> <<"WSACleanup:0">>]
    ELSE [refs |-> refs, log |-> <<"WSACleanup:WSANOTINITIALISED">>]

(* Variant: the constructor reports the failed start and carries on *)
Constructor_without_early_return(p, w, f, refs, ok) ==
    LET head == IF p = "stub"
                  THEN <<"=== WebRTC Native Client - Stub Version ===",
                         "This demonstrates the native WebRTC implementation",
                         "============================================", "">>
                  ELSE <<"=== Real WebRTC Native Client ===">>
        mode == IF p = "stub" THEN <<>>
                ELSE IF f = 1
                  THEN <<"Running with REAL WebRTC libraries",
                         "Using actual WebRTC C++ source code">>
                  ELSE <<"Running in DEMO mode (WebRTC headers not available)",
                         "Showing real WebRTC source code patterns">>
        last == IF p = "stub" THEN <<"WebRTC Client initialized (stub version)!">>
                ELSE <<"WebRTC Client initialized!">>
        wsa  == IF w THEN WSAStartup(refs, ok) ELSE [refs |-> refs, log |-> <<>>]
    IN  [out |-> head \o (IF w /\ ok THEN <<"Windows networking initialized">> ELSE <<>>)
                     \o mode \o last,
         err |-> IF w /\ ~ok THEN <<"Failed to initialize Windows networking">> ELSE <<>>,
         refs |-> wsa.refs, log |-> wsa.log]

(* The constructors: p the program, w the platform, f the flag, ok whether  *)
(* WSAStartup succeeds (read only on the Windows build).                    *)
Constructor(p, w, f, refs, ok) ==
    LET head == IF p = "stub"
                  THEN <<"=== WebRTC Native Client - Stub Version ===",
                         "This demonstrates the native WebRTC implementation",
                         "============================================", "">>
                  ELSE <<"=== Real WebRTC Native Client ===">>
        mode == IF p = "stub" THEN <<>>
                ELSE IF f = 1
                  THEN <<"Running with REAL WebRTC libraries",
                         "Using actual WebRTC C++ source code">>
                  ELSE <<"Running in DEMO mode (WebRTC headers not available)",
                         "Showing real WebRTC source code patterns">>
        last == IF p = "stub" THEN <<"WebRTC Client initialized (stub version)!">>
                ELSE <<"WebRTC Client initialized!">>
        wsa  == IF w THEN WSAStartup(refs, ok) ELSE [refs |-> refs, log |-> <<>>]
    IN  IF w /\ ~ok
          THEN [out |-> head, err |-> <<"Failed to initialize Windows networking">>,
                refs |-> wsa.refs, log |-> wsa.log]
          ELSE [out |-> head \o (IF w THEN <<"Windows networking initialized">> ELSE <<>>)
                             \o mode \o last,
                err |-> <<>>, refs |-> wsa.refs, log |-> wsa.log]

(* Variant: the destructor does not stop the socket layer *)
Destructor_without_cleanup(w, refs) == [refs |-> refs, log |-> <<>>]

(* The destructors *)
Destructor(w, refs) ==
    IF w THEN WSACleanup(refs) ELSE [refs |-> refs, log |-> <<>>]

----------------------------------------------------------------------------
(* Run and main as data *)

(* Variant: the offer is created before video capture is started *)
RunSteps_offer_before_capture(p) ==
    IF p = "stub"
      THEN <<"CreatePeerConnection", "AddVideoStream", "AddAudioStream",
             "CreateOffer", "StartVideoCapture", "RenderVideo">>
      ELSE <<"InitializeWebRTC", "CreatePeerConnection", "AddVideoStream",
             "AddAudioStream", "CreateOffer", "StartVideoCapture", "RenderVideo">>

(* The method calls Run makes, in order *)
RunSteps(p) ==
    IF p = "stub"
      THEN <<"CreatePeerConnection", "AddVideoStream", "AddAudioStream",
             "StartVideoCapture", "CreateOffer", "RenderVideo">>
      ELSE <<"InitializeWebRTC", "CreatePeerConnection", "AddVideoStream",
             "AddAudioStream", "StartVideoCapture", "CreateOffer", "RenderVideo">>

(* Variant: Run also returns when AddVideoStream fails *)
RunChecked_with_video(p) ==
    IF p = "stub" THEN {}
    ELSE {"InitializeWebRTC", "CreatePeerConnection", "AddVideoStream"}

(* The calls whose result Run tests, returning when it is false *)
RunChecked(p) ==
    IF p = "stub" THEN {} ELSE {"InitializeWebRTC", "CreatePeerConnection"}

(* What Run writes to std::cerr before such a return *)
RunFailure(m) ==
    IF m = "InitializeWebRTC" THEN "Failed to initialize WebRTC"
    ELSE "Failed to create peer connection"

MainBanner(p) ==
    IF p = "stub"
      THEN <<"WebRTC Native Video Streaming Client",
             "Using WebRTC C++ Source Code (Stub Version)",
             "==========================================", "">>
      ELSE <<"Real WebRTC Native Video Streaming Client",
             "Using WebRTC C++ Source Code Patterns",
             "==========================================", "">>

RunHeader(p) ==
    IF p = "stub"
      THEN <<"", "=== WebRTC Native Client Running ===",
             "This demonstrates the structure of a native WebRTC application",
             "=====================================", "">>
      ELSE <<"", "=== Real WebRTC Native Client Running ===",
             "This uses actual WebRTC C++ source code patterns",
             "========================================", "">>

(* The features the closing banner lists *)
BannerFeatures(p, f) ==
    IF p = "stub"
      THEN <<"PeerConnection creation", "Video stream handling",
             "Audio stream handling", "Video capture", "SDP offer/answer",
             "Video rendering", "Signaling protocol">>
    ELSE IF f = 1
      THEN <<"Using REAL WebRTC C++ libraries",
             "PeerConnection with actual WebRTC objects",
             "Real video/audio capture and processing",
             "Actual SDP negotiation and ICE handling",
             "Real-time media streaming capabilities">>
      ELSE <<"Real WebRTC source code patterns demonstrated",
             "Shows actual WebRTC API usage from conductor.cc",
             "Demonstrates proper WebRTC initialization flow",
             "Shows video/audio capture and track creation",
             "Demonstrates SDP offer/answer and ICE handling",
             "To use real WebRTC, build with WebRTC libraries">>

RunBanner(p, f) ==
    (IF p = "stub"
       THEN <<"", "=== Native WebRTC Features Demonstrated ===">>
       ELSE <<"", "=== Real WebRTC Features Demonstrated ===">>)
    \o BannerFeatures(p, f)
    \o (IF p = "stub"
          THEN <<"==========================================", "">>
          ELSE <<"====================================", "">>)

ExitPrompt == "Press Enter to exit..."

(* std::cin.get(): the next character, or end of input *)
CinGet(in) ==
    IF in = <<>> THEN [got |-> "EOF", rest |-> in]
    ELSE [got |-> Head(in), rest |-> Tail(in)]

----------------------------------------------------------------------------
(* The record kept of an operation *)

Call(m, arg, r, before) ==
    [m |-> m, arg |-> arg, out |-> r.out, err |-> r.err, ret |-> r.ret,
     before |-> before, after |-> r.client]

Event(m, o, e) ==
    [m |-> m, arg |-> "", out |-> o, err |-> e, ret |-> "void",
     before |-> client, after |-> client]

----------------------------------------------------------------------------
(* The builds *)

TypeOK ==
    /\ prog \in {"stub", "real"}
    /\ win32 \in BOOLEAN
    /\ flag \in {0, 1}
    /\ ip \in 1..(Len(RunSteps(prog)) + 1)
    /\ exitCode \in {NoExit, 0, 1}
    /\ wsaRefs \in Nat

(* The state of a process of the build (p, w, f) when main is entered *)
Fresh(p, w, f) ==
    /\ prog = p /\ win32 = w /\ flag = f
    /\ ip = 1
    /\ out = <<>> /\ err = <<>> /\ calls = <<>>
    /\ stdin \in Inputs
    /\ reads = <<>>
    /\ wsaRefs = 0 /\ wsaLog = <<>>
    /\ client = NullClient
    /\ exc = ""
    /\ exitCode = NoExit
    /\ offer = "none"

(* The builds the source gives: both programs, on both platforms, the flag  *)
(* as the source defines it (the stub program has no such flag).            *)
Init ==
    /\ \E p \in {"stub", "real"}, w \in BOOLEAN :
          Fresh(p, w, IF p = "real" THEN WEBRTC_HEADERS_AVAILABLE(w) ELSE 0)
    /\ pc = "main"
    /\ history = <<>>

(* RealWebRTCClient built with the flag enabled *)
InitEnabled ==
    /\ \E w \in BOOLEAN : Fresh("real", w, 1)
    /\ pc = "main"
    /\ history = <<>>

(* RealWebRTCClient with either value of the flag, and the stub program *)
InitAnyFlag ==
    /\ \E p \in {"stub", "real"}, w \in BOOLEAN, f \in {0, 1} :
          (p = "stub" => f = 0) /\ Fresh(p, w, f)
    /\ pc = "main"
    /\ history = <<>>

----------------------------------------------------------------------------
(* main and Run, statement by statement *)

Main_Begin ==
    /\ pc = "main"
    /\ out' = out \o MainBanner(prog)
    /\ calls' = Append(calls, Event("main", MainBanner(prog), <<>>))
    /\ pc' = "construct"
    /\ UNCHANGED <<prog, win32, flag, ip, err, stdin, reads, wsaRefs, wsaLog,
                   client, exc, exitCode, offer, history>>

Construct ==
    /\ pc = "construct"
    /\ \E ok \in (IF win32 THEN BOOLEAN ELSE {TRUE}) :
          LET k == Constructor(prog, win32, flag, wsaRefs, ok)
          IN  /\ out' = out \o k.out
              /\ err' = err \o k.err
              /\ wsaRefs' = k.refs
              /\ wsaLog' = wsaLog \o k.log
              /\ calls' = Append(calls, Event("constructor", k.out, k.err))
    /\ client' = NullClient
    /\ pc' = "run"
    /\ UNCHANGED <<prog, win32, flag, ip, stdin, reads, exc, exitCode, offer, history>>

Run_Begin ==
    /\ pc = "run"
    /\ out' = out \o RunHeader(prog)
    /\ calls' = Append(calls, Event("Run", RunHeader(prog), <<>>))
    /\ ip' = 1
    /\ pc' = "steps"
    /\ UNCHANGED <<prog, win32, flag, err, stdin, reads, wsaRefs, wsaLog,
                   client, exc, exitCode, offer, history>>

(* What the library and the platform may answer in a call *)
Answers(S) == IF prog = "real" /\ flag = 1 THEN S ELSE {NoEnv}

(* Run's call of method m with effect r, and what Run does with the result *)
RunCall(m, r) ==
    /\ pc = "steps"
    /\ ip <= Len(RunSteps(prog))
    /\ RunSteps(prog)[ip] = m
    /\ out' = out \o r.out
    /\ client' = r.client
    /\ offer' = IF r.req # <<>> THEN "pending" ELSE offer
    /\ IF r.thrown # ""
         THEN /\ exc' = r.thrown
              /\ err' = err \o r.err
              /\ calls' = Append(calls, Call(m, "", r, client))
              /\ pc' = "destruct"
              /\ ip' = ip
         ELSE IF m \in RunChecked(prog) /\ r.ret = "false"
         THEN /\ exc' = exc
              /\ err' = err \o r.err \o <<RunFailure(m)>>
              /\ calls' = calls \o <<Call(m, "", r, client),
                                     [Event("Run:return", <<>>, <<RunFailure(m)>>)
                                        EXCEPT !.before = r.client, !.after = r.client]>>
              /\ pc' = "destruct"
              /\ ip' = ip
         ELSE /\ exc' = exc
              /\ err' = err \o r.err
              /\ calls' = Append(calls, Call(m, "", r, client))
              /\ pc' = IF ip = Len(RunSteps(prog)) THEN "banner" ELSE "steps"
              /\ ip' = ip + 1
    /\ UNCHANGED <<prog, win32, flag, stdin, reads, wsaRefs, wsaLog, exitCode, history>>

Run_InitializeWebRTC ==
    \E e \in Answers(InitEnv) :
        RunCall("InitializeWebRTC", Real_InitializeWebRTC(client, flag, e))

Run_CreatePeerConnection ==
    \E e \in Answers(PeerConnectionEnv) :
        RunCall("CreatePeerConnection",
                IF prog = "stub" THEN Simple_CreatePeerConnection(client)
                ELSE Real_CreatePeerConnection(client, flag, e))

Run_AddVideoStream ==
    \E e \in Answers(VideoEnv) :
        RunCall("AddVideoStream",
                IF prog = "stub" THEN Simple_AddVideoStream(client)
                ELSE Real_AddVideoStream(client, flag, e))

Run_AddAudioStream ==
    \E e \in Answers(TrackEnv) :
        RunCall("AddAudioStream",
                IF prog = "stub" THEN Simple_AddAudioStream(client)
                ELSE Real_AddAudioStream(client, flag, e))

Run_StartVideoCapture ==
    \E e \in Answers(DeviceEnv) :
        RunCall("StartVideoCapture",
                IF prog = "stub" THEN Simple_StartVideoCapture(client)
                ELSE Real_StartVideoCapture(client, flag, e))

Run_CreateOffer ==
    \E e \in {NoEnv} :
        RunCall("CreateOffer",
                IF prog = "stub" THEN Simple_CreateOffer(client)
                ELSE Real_CreateOffer(client, flag, e))

Run_RenderVideo ==
    \E e \in {NoEnv} :
        RunCall("RenderVideo",
                IF prog = "stub" THEN Simple_RenderVideo(client)
                ELSE Real_RenderVideo(client))

Run_Banner ==
    /\ pc = "banner"
    /\ out' = out \o RunBanner(prog, flag)
    /\ calls' = Append(calls, Event("banner", RunBanner(prog, flag), <<>>))
    /\ pc' = "prompt"
    /\ UNCHANGED <<prog, win32, flag, ip, err, stdin, reads, wsaRefs, wsaLog,
                   client, exc, exitCode, offer, history>>

(* Variant: Run returns after the prompt without waiting for input *)
Run_Prompt_without_wait ==
    /\ pc = "prompt"
    /\ out' = Append(out, ExitPrompt)
    /\ calls' = Append(calls, Event("prompt", <<ExitPrompt>>, <<>>))
    /\ pc' = "destruct"
    /\ UNCHANGED <<prog, win32, flag, ip, err, stdin, reads, wsaRefs, wsaLog,
                   client, exc, exitCode, offer, history>>

Run_Prompt ==
    /\ pc = "prompt"
    /\ out' = Append(out, ExitPrompt)
    /\ calls' = Append(calls, Event("prompt", <<ExitPrompt>>, <<>>))
    /\ pc' = "cin.get"
    /\ UNCHANGED <<prog, win32, flag, ip, err, stdin, reads, wsaRefs, wsaLog,
                   client, exc, exitCode, offer, history>>

(* Variant: the character read is echoed to std::cout *)
Run_CinGet_with_echo ==
    /\ pc = "cin.get"
    /\ LET g == CinGet(stdin)
       IN  /\ reads' = Append(reads, g.got)
           /\ stdin' = g.rest
           /\ out' = Append(out, g.got)
    /\ calls' = Append(calls, Event("cin.get", <<>>, <<>>))
    /\ pc' = "destruct"
    /\ UNCHANGED <<prog, win32, flag, ip, err, wsaRefs, wsaLog,
                   client, exc, exitCode, offer, history>>

Run_CinGet ==
    /\ pc = "cin.get"
    /\ LET g == CinGet(stdin)
       IN  /\ reads' = Append(reads, g.got)
           /\ stdin' = g.rest
    /\ calls' = Append(calls, Event("cin.get", <<>>, <<>>))
    /\ pc' = "destruct"
    /\ UNCHANGED <<prog, win32, flag, ip, out, err, wsaRefs, wsaLog,
                   client, exc, exitCode, offer, history>>

(* The client leaves scope: at the end of the try block, or while an        *)
(* exception unwinds it.                                                    *)
Destruct ==
    /\ pc = "destruct"
    /\ LET d == Destructor(win32, wsaRefs)
       IN  /\ wsaRefs' = d.refs
           /\ wsaLog' = wsaLog \o d.log
    /\ calls' = Append(calls, Event("destructor", <<>>, <<>>))
    /\ pc' = "return"
    /\ UNCHANGED <<prog, win32, flag, ip, out, err, stdin, reads,
                   client, exc, exitCode, offer, history>>

(* Variant: the handler reports the exception and main still returns 0 *)
MainReturn_returns_zero(x) ==
    IF x # "" THEN [err |-> <<"Error: " \o x>>, code |-> 0]
    ELSE [err |-> <<>>, code |-> 0]

(* The end of main: the handler of std::exception, or return 0 *)
MainReturn(x) ==
    IF x # "" THEN [err |-> <<"Error: " \o x>>, code |-> 1]
    ELSE [err |-> <<>>, code |-> 0]

Main_Return ==
    /\ pc = "return"
    /\ LET m == MainReturn(exc)
       IN  /\ err' = err \o m.err
           /\ exitCode' = m.code
           /\ calls' = Append(calls, Event("return", <<>>, m.err))
    /\ pc' = "done"
    /\ UNCHANGED <<prog, win32, flag, ip, out, stdin, reads, wsaRefs, wsaLog,
                   client, exc, offer, history>>

(* The same build is run again *)
Finished == [out |-> out, err |-> err, exitCode |-> exitCode, wsaLog |-> wsaLog,
             reads |-> reads, calls |-> calls]

Rerun ==
    /\ pc = "done"
    /\ Len(history) + 1 < MaxRuns
    /\ history' = Append(history, Finished)
    /\ pc' = "main"
    /\ ip' = 1
    /\ out' = <<>> /\ err' = <<>> /\ calls' = <<>>
    /\ stdin' \in Inputs
    /\ reads' = <<>>
    /\ wsaRefs' = 0 /\ wsaLog' = <<>>
    /\ client' = NullClient
    /\ exc' = ""
    /\ exitCode' = NoExit
    /\ offer' = "none"
    /\ UNCHANGED <<prog, win32, flag>>

(* The library's answers to CreateOffer and SetLocalDescription, delivered  *)
(* to the observers while the process lives.                                *)
OnOfferResult ==
    /\ offer = "pending"
    /\ pc \in {"steps", "banner", "prompt", "cin.get"}
    /\ \E ok \in BOOLEAN :
          IF ok THEN /\ out' = Append(out, "SDP created successfully!")
                     /\ err' = err
                     /\ offer' = "setting"
                ELSE /\ out' = out
                     /\ err' = Append(err, "SDP creation failed: error")
                     /\ offer' = "failed"
    /\ UNCHANGED <<prog, win32, flag, pc, ip, calls, stdin, reads, wsaRefs, wsaLog,
                   client, exc, exitCode, history>>

OnSetDescriptionResult ==
    /\ offer = "setting"
    /\ pc \in {"steps", "banner", "prompt", "cin.get"}
    /\ \E ok \in BOOLEAN :
          IF ok THEN /\ out' = Append(out, "SDP set successfully!")
                     /\ err' = err
                     /\ offer' = "set"
                ELSE /\ out' = out
                     /\ err' = Append(err, "SDP set failed: error")
                     /\ offer' = "set_failed"
    /\ UNCHANGED <<prog, win32, flag, pc, ip, calls, stdin, reads, wsaRefs, wsaLog,
                   client, exc, exitCode, history>>

Step ==
    \/ Main_Begin
    \/ Construct
    \/ Run_Begin
    \/ Run_InitializeWebRTC
    \/ Run_CreatePeerConnection
    \/ Run_AddVideoStream
    \/ Run_AddAudioStream
    \/ Run_StartVideoCapture
    \/ Run_CreateOffer
    \/ Run_RenderVideo
    \/ Run_Banner
    \/ Run_Prompt
    \/ Run_CinGet
    \/ Destruct
    \/ Main_Return

Next == Step \/ Rerun

NextEnabled == Step \/ OnOfferResult \/ OnSetDescriptionResult

Spec == Init /\ [][Next]_vars

SpecEnabled == InitEnabled /\ [][NextEnabled]_vars

SpecAnyFlag == InitAnyFlag /\ [][NextEnabled]_vars

(* A running process keeps executing its next statement *)
SpecFair == Init /\ [][Next]_vars /\ WF_vars(Step)

----------------------------------------------------------------------------
(* A client object used directly: it is constructed, then its public        *)
(* methods are called in any order, any number of times up to MaxCalls,     *)
(* then it is destroyed.                                                    *)

InitCalls ==
    /\ \E p \in {"stub", "real"}, w \in BOOLEAN :
          Fresh(p, w, IF p = "real" THEN WEBRTC_HEADERS_AVAILABLE(w) ELSE 0)
    /\ stdin = <<>>
    /\ pc = "test"
    /\ history = <<>>

Digits == "0123456789"

(* Signaling messages: empty, short, of exactly SubstrLen characters, longer *)
Messages ==
    LET m50 == Digits \o Digits \o Digits \o Digits \o Digits
    IN  {"", "offer", m50, m50 \o "X"}

Test_Construct ==
    /\ pc = "test"
    /\ \E ok \in (IF win32 THEN BOOLEAN ELSE {TRUE}) :
          LET k == Constructor(prog, win32, flag, wsaRefs, ok)
          IN  /\ out' = out \o k.out
              /\ err' = err \o k.err
              /\ wsaRefs' = k.refs
              /\ wsaLog' = wsaLog \o k.log
              /\ calls' = Append(calls, Event("constructor", k.out, k.err))
    /\ client' = NullClient
    /\ pc' = "object"
    /\ UNCHANGED <<prog, win32, flag, ip, stdin, reads, exc, exitCode, offer, history>>

(* A direct call of method m with argument arg and effect r *)
DirectCall(m, arg, r) ==
    /\ pc = "object"
    /\ Len(calls) <= MaxCalls
    /\ out' = out \o r.out
    /\ err' = err \o r.err
    /\ client' = r.client
    /\ offer' = IF r.req # <<>> THEN "pending" ELSE offer
    /\ calls' = Append(calls, Call(m, arg, r, client))
    /\ exc' = r.thrown
    /\ pc' = IF r.thrown # "" THEN "unwound" ELSE "object"
    /\ UNCHANGED <<prog, win32, flag, ip, stdin, reads, wsaRefs, wsaLog,
                   exitCode, history>>

Test_InitializeWebRTC ==
    /\ prog = "real"
    /\ \E e \in Answers(InitEnv) :
          DirectCall("InitializeWebRTC", "", Real_InitializeWebRTC(client, flag, e))

Test_CreatePeerConnection ==
    \E e \in Answers(PeerConnectionEnv) :
        DirectCall("CreatePeerConnection", "",
                   IF prog = "stub" THEN Simple_CreatePeerConnection(client)
                   ELSE Real_CreatePeerConnection(client, flag, e))

Test_AddVideoStream ==
    \E e \in Answers(VideoEnv) :
        DirectCall("AddVideoStream", "",
                   IF prog = "stub" THEN Simple_AddVideoStream(client)
                   ELSE Real_AddVideoStream(client, flag, e))

Test_AddAudioStream ==
    \E e \in Answers(TrackEnv) :
        DirectCall("AddAudioStream", "",
                   IF prog = "stub" THEN Simple_AddAudioStream(client)
                   ELSE Real_AddAudioStream(client, flag, e))

Test_StartVideoCapture ==
    \E e \in Answers(DeviceEnv) :
        DirectCall("StartVideoCapture", "",
                   IF prog = "stub" THEN Simple_StartVideoCapture(client)
                   ELSE Real_StartVideoCapture(client, flag, e))

Test_CreateOffer ==
    \E e \in Answers({NoEnv}) :
        DirectCall("CreateOffer", "",
                   IF prog = "stub" THEN Simple_CreateOffer(client)
                   ELSE Real_CreateOffer(client, flag, e))

Test_RenderVideo ==
    \E e \in Answers({NoEnv}) :
        DirectCall("RenderVideo", "",
                   IF prog = "stub" THEN Simple_RenderVideo(client)
                   ELSE Real_RenderVideo(client))

Test_HandleSignaling ==
    /\ prog = "stub"
    /\ \E message \in Messages :
          DirectCall("HandleSignaling", message,
                     Simple_HandleSignaling(client, message))

Test_Destroy ==
    /\ pc \in {"object", "unwound"}
    /\ LET d == Destructor(win32, wsaRefs)
       IN  /\ wsaRefs' = d.refs
           /\ wsaLog' = wsaLog \o d.log
    /\ calls' = Append(calls, Event("destructor", <<>>, <<>>))
    /\ pc' = "destroyed"
    /\ UNCHANGED <<prog, win32, flag, ip, out, err, stdin, reads,
                   client, exc, exitCode, offer, history>>

NextCalls ==
    \/ Test_Construct
    \/ Test_InitializeWebRTC
    \/ Test_CreatePeerConnection
    \/ Test_AddVideoStream
    \/ Test_AddAudioStream
    \/ Test_StartVideoCapture
    \/ Test_CreateOffer
    \/ Test_RenderVideo
    \/ Test_HandleSignaling
    \/ Test_Destroy

SpecCalls == InitCalls /\ [][NextCalls]_vars

----------------------------------------------------------------------------
(* Notions the properties use *)

Names == [i \in DOMAIN calls |-> calls[i].m]

Called(m) == \E i \in DOMAIN calls : calls[i].m = m

IsPrefix(s, t) == Len(s) <= Len(t) /\ SubSeq(t, 1, Len(s)) = s

RECURSIVE Flatten(_)
Flatten(ss) == IF ss = <<>> THEN <<>> ELSE Head(ss) \o Flatten(Tail(ss))

(* How the socket-layer start of a run went: "none" when it was not called *)
SocketStart(log) == IF log = <<>> THEN "none" ELSE log[1]

----------------------------------------------------------------------------
(* C1 *)

\* C1 (as claimed): any two runs of the same program write the same lines to
\* standard output, whatever standard input holds, and the last line is the
\* exit prompt.
C1_AnyTwoRunsSameOutput ==
    pc = "done" =>
        /\ \A i \in DOMAIN history : history[i].out = out
        /\ out # <<>> /\ out[Len(out)] = "Press Enter to exit..."

\* C1 (amended): any two runs of the same program in which the socket-layer
\* start has the same outcome (off Windows: any two runs) write the same lines
\* to standard output, whatever standard input holds, and in every run the last
\* line written to standard output is the exit prompt.
C1_SameOutputGivenSocketStart ==
    pc = "done" =>
        /\ \A i \in DOMAIN history :
              SocketStart(history[i].wsaLog) = SocketStart(wsaLog)
                  => history[i].out = out
        /\ out # <<>> /\ out[Len(out)] = "Press Enter to exit..."

C1_Witness ==
    /\ pc = "done"
    /\ Len(history) = 1
    /\ win32
    /\ SocketStart(history[1].wsaLog) = SocketStart(wsaLog)
    /\ history[1].reads = <<"EOF">>
    /\ reads = <<"x">>
    /\ history[1].out = out

----------------------------------------------------------------------------
(* C2 *)

C2_Order(p) ==
    <<"main", "constructor", "Run">>
    \o (IF p = "real" THEN <<"InitializeWebRTC">> ELSE <<>>)
    \o <<"CreatePeerConnection", "AddVideoStream", "AddAudioStream",
         "StartVideoCapture", "CreateOffer", "RenderVideo",
         "banner", "prompt", "cin.get", "destructor", "return">>

\* C2: in every run the operations happen exactly once each in the fixed order
\* construct, [InitializeWebRTC,] CreatePeerConnection, AddVideoStream,
\* AddAudioStream, StartVideoCapture, CreateOffer, RenderVideo, closing banner,
\* exit prompt, one read of input; a finished run has performed all of them; and
\* standard output is at every moment the outputs of the operations performed so
\* far, each complete, in that order.
C2_FixedStepOrder ==
    /\ IsPrefix(Names, C2_Order(prog))
    /\ pc = "done" => Names = C2_Order(prog)
    /\ out = Flatten([i \in DOMAIN calls |-> calls[i].out])
    /\ Len(reads) = (IF Called("cin.get") THEN 1 ELSE 0)

C2_Witness ==
    /\ pc = "done"
    /\ prog = "real"
    /\ Names = C2_Order("real")
    /\ Len(reads) = 1

----------------------------------------------------------------------------
(* C3 *)

C3_Waited ==
    /\ Len(reads) <= 1
    /\ (pc \in {"destruct", "return", "done"} \/ exitCode # NoExit) =>
          /\ Len(reads) = 1
          /\ out # <<>> /\ out[Len(out)] = ExitPrompt
    /\ reads = <<>> => exitCode = NoExit

\* C3: the process never terminates before it has printed the exit prompt and
\* made one read from standard input; nothing is read or written after that
\* read; and once the read has returned, with a character or with end of input,
\* the process terminates.
C3_KeypressWait ==
    /\ [] C3_Waited
    /\ (reads # <<>>) ~> (pc = "done" /\ exitCode = 0)

C3_Witness ==
    /\ pc = "done"
    /\ reads = <<"EOF">>
    /\ exitCode = 0

----------------------------------------------------------------------------
(* C4 *)

StartsWith(s, pre) == Len(s) >= Len(pre) /\ SubSeq(s, 1, Len(pre)) = pre

\* C4: main returns only 0 or 1, and only at its end; it returns 1 exactly when
\* an exception left Run (or the constructor) and reached the handler in main,
\* which then reported it as the last line on standard error, and 0 otherwise;
\* with the flag disabled no exception is ever thrown and main returns 0.
C4_ExitCodes ==
    /\ exitCode \in {NoExit, 0, 1}
    /\ (pc = "done") <=> (exitCode # NoExit)
    /\ pc = "done" =>
          /\ (exitCode = 1) <=> (exc # "")
          /\ exitCode = 1 => err # <<>> /\ err[Len(err)] = "Error: " \o exc
          /\ exitCode = 0 => \A i \in DOMAIN err : ~StartsWith(err[i], "Error: ")
    /\ flag = 0 => exc = "" /\ exitCode \in {NoExit, 0}

C4_Witness ==
    /\ pc = "done"
    /\ exitCode = 1
    /\ exc = "std::bad_alloc"
    /\ Called("AddAudioStream")

----------------------------------------------------------------------------
(* C5 *)

NotInitialized ==
    {"Peer connection factory not initialized", "Peer connection not initialized"}

HandleCheckers ==
    {"CreatePeerConnection", "AddVideoStream", "AddAudioStream", "CreateOffer"}

\* C5 (as claimed): with the flag disabled the handle is null and each method of
\* RealWebRTCClient that checks it short-circuits, printing a "not initialized"
\* message.
C5_NullHandleShortCircuits ==
    /\ client = NullClient
    /\ \A i \in DOMAIN calls :
          (prog = "real" /\ calls[i].m \in HandleCheckers) =>
              \E k \in DOMAIN calls[i].err : calls[i].err[k] \in NotInitialized

\* C5 (amended): with the flag disabled no handle is ever set or tested: no
\* method prints a "not initialized" message or writes to standard error at
\* all; CreatePeerConnection, AddVideoStream, AddAudioStream and CreateOffer of
\* RealWebRTCClient print their "DEMO: ..." line instead and none returns false;
\* the only run-time test whose outcome varies is the constructor's test of the
\* socket-layer start, the one source of a standard-error line.
C5_NoHandleCheckWhenDisabled ==
    /\ client = NullClient
    /\ \A i \in DOMAIN calls :
          calls[i].m \in HandleCheckers =>
              /\ calls[i].err = <<>>
              /\ calls[i].ret \in {"true", "void"}
              /\ calls[i].before = NullClient /\ calls[i].after = NullClient
              /\ prog = "real" =>
                    Len(calls[i].out) >= 2 /\ StartsWith(calls[i].out[2], "DEMO: ")
    /\ \A k \in DOMAIN err : err[k] \notin NotInitialized
    /\ err # <<>> <=> SocketStart(wsaLog) = "WSAStartup:error"

C5_Witness ==
    /\ prog = "real"
    /\ flag = 0
    /\ pc = "banner"
    /\ \A m \in HandleCheckers : Called(m)

----------------------------------------------------------------------------
(* C6 *)

\* C6: with the flag disabled no public method of either client changes the
\* client object, and two calls of the same method with the same argument print
\* the same lines and return the same value, whatever was called in between and
\* however often.
C6_Stateless ==
    /\ client = NullClient
    /\ \A i \in DOMAIN calls :
          calls[i].before = NullClient /\ calls[i].after = NullClient
    /\ \A i, j \in DOMAIN calls :
          (calls[i].m = calls[j].m /\ calls[i].arg = calls[j].arg) =>
              /\ calls[i].out = calls[j].out
              /\ calls[i].err = calls[j].err
              /\ calls[i].ret = calls[j].ret

C6_Witness ==
    /\ Len(calls) = 4
    /\ calls[2].m = "CreatePeerConnection"
    /\ calls[3].m = "HandleSignaling" /\ calls[3].arg = "offer"
    /\ calls[4].m = "CreatePeerConnection"
    /\ calls[2].out = calls[4].out

----------------------------------------------------------------------------
(* C7 *)

\* C7: on the Windows build every run calls the socket-layer start once, in the
\* constructor, and the socket-layer stop once, in the destructor; the stop
\* comes after the start and after Run has returned; no other socket operation
\* is performed in between or at any time; the layer holds a reference only
\* between a successful start and the stop.  Off Windows the socket layer is
\* never touched.
C7_SocketLayerBracket ==
    /\ ~win32 => wsaLog = <<>> /\ wsaRefs = 0
    /\ win32 =>
          /\ Len(wsaLog) = (IF Called("constructor") THEN 1 ELSE 0)
                           + (IF Called("destructor") THEN 1 ELSE 0)
          /\ Called("destructor") => Called("constructor") /\ Called("cin.get")
          /\ Len(wsaLog) >= 1 => wsaLog[1] \in {"WSAStartup:0", "WSAStartup:error"}
          /\ Len(wsaLog) = 2 =>
                wsaLog[2] = (IF wsaLog[1] = "WSAStartup:0" THEN "WSACleanup:0"
                             ELSE "WSACleanup:WSANOTINITIALISED")
          /\ wsaRefs = (IF wsaLog = <<"WSAStartup:0">> THEN 1 ELSE 0)
          /\ pc = "done" => Len(wsaLog) = 2

C7_Witness ==
    /\ win32
    /\ pc = "done"
    /\ wsaLog = <<"WSAStartup:0", "WSACleanup:0">>
    /\ Called("cin.get")

----------------------------------------------------------------------------
(* C8 *)

C8_DemoLine(m) ==
    CASE m = "InitializeWebRTC" -> "DEMO: WebRTC initialization simulated"
      [] m = "CreatePeerConnection" -> "DEMO: PeerConnection creation simulated"
      [] m = "AddVideoStream" -> "DEMO: Video stream addition simulated"
      [] m = "AddAudioStream" -> "DEMO: Audio stream addition simulated"

\* C8: the flag is 0 on every platform, so in RealWebRTCClient every call of
\* InitializeWebRTC, CreatePeerConnection, AddVideoStream and AddAudioStream
\* prints its "DEMO: ... simulated" line followed by the names of the library
\* calls and returns true; Run never takes a failure branch; and no step of Run
\* writes to standard error.
C8_FlagAlwaysDisabled ==
    /\ flag = 0
    /\ \A i \in DOMAIN calls :
          /\ (prog = "real" /\ calls[i].m \in {"InitializeWebRTC", "CreatePeerConnection",
                                               "AddVideoStream", "AddAudioStream"}) =>
                /\ calls[i].ret = "true"
                /\ Len(calls[i].out) >= 3
                /\ calls[i].out[2] = C8_DemoLine(calls[i].m)
                /\ \A k \in 3..Len(calls[i].out) : StartsWith(calls[i].out[k], "  - ")
          /\ calls[i].m # "constructor" => calls[i].err = <<>>
    /\ ~Called("Run:return")
    /\ \A k \in DOMAIN err :
          err[k] \notin {"Failed to initialize WebRTC", "Failed to create peer connection"}
    /\ Len(err) <= 1

C8_Witness ==
    /\ prog = "real"
    /\ ~win32
    /\ pc = "done"
    /\ Called("InitializeWebRTC") /\ Called("AddAudioStream")
    /\ err = <<>>

----------------------------------------------------------------------------
(* C9 *)

C9_FeatureMethod(f) ==
    CASE f = "PeerConnection creation" -> "CreatePeerConnection"
      [] f = "Video stream handling" -> "AddVideoStream"
      [] f = "Audio stream handling" -> "AddAudioStream"
      [] f = "Video capture" -> "StartVideoCapture"
      [] f = "SDP offer/answer" -> "CreateOffer"
      [] f = "Video rendering" -> "RenderVideo"
      [] f = "Signaling protocol" -> "HandleSignaling"

C9_Features ==
    {"PeerConnection creation", "Video stream handling", "Audio stream handling",
     "Video capture", "SDP offer/answer", "Video rendering", "Signaling protocol"}

\* C9: in the stub program every feature the closing banner lists corresponds to
\* a client method that Run has invoked earlier in the same run.
C9_BannerMatchesExecution ==
    prog = "stub" =>
        \A k \in DOMAIN out :
            out[k] \in C9_Features => Called(C9_FeatureMethod(out[k]))

----------------------------------------------------------------------------
(* C10 *)

Failed(m) == \E i \in DOMAIN calls : calls[i].m = m /\ calls[i].ret = "false"

C10_After(m) ==
    CASE m = "AddVideoStream" -> "AddAudioStream"
      [] m = "AddAudioStream" -> "StartVideoCapture"

----------------------------------------------------------------------------
(* C11 *)

(* The handles a method tests before it does anything else *)
C11_Needs(m) ==
    CASE m = "CreatePeerConnection" -> {"peer_connection_factory_"}
      [] m \in {"AddVideoStream", "AddAudioStream"} ->
             {"peer_connection_factory_", "peer_connection_"}
      [] m = "CreateOffer" -> {"peer_connection_"}
      [] OTHER -> {}

(* The handles that are non-null in the client c *)
C11_Set(c) == {h \in {"peer_connection_factory_", "peer_connection_"} : c[h] # "null"}

C11_GuardsPass ==
    /\ (pc = "steps" /\ ip <= Len(RunSteps(prog))) =>
          LET m == RunSteps(prog)[ip]
          IN  /\ m = "CreatePeerConnection" => client.peer_connection_factory_ # "null"
              /\ m \in {"AddVideoStream", "AddAudioStream", "CreateOffer"} =>
                    C11_Set(client) = {"peer_connection_factory_", "peer_connection_"}
    /\ \A i \in DOMAIN calls :
          /\ C11_Needs(calls[i].m) \subseteq C11_Set(calls[i].before)
          /\ \A k \in DOMAIN calls[i].err : calls[i].err[k] \notin NotInitialized
    /\ \A k \in DOMAIN err : err[k] \notin NotInitialized

\* C11: with the flag enabled, whenever Run reaches CreatePeerConnection the
\* factory handle is non-null, and whenever Run reaches AddVideoStream,
\* AddAudioStream or CreateOffer both handles are non-null, so no run of the
\* program prints "Peer connection factory not initialized" or "Peer connection
\* not initialized"; and in a run a handle that has been set is never reset to
\* null.
C11_GuardsNeverHitFromRun ==
    /\ [] C11_GuardsPass
    /\ [][C11_Set(client) \subseteq C11_Set(client')]_vars

C11_Witness ==
    /\ flag = 1
    /\ pc = "done"
    /\ \A m \in {"CreatePeerConnection", "AddVideoStream", "AddAudioStream", "CreateOffer"} :
          Called(m)
    /\ Failed("AddVideoStream")
    /\ offer # "none"
    /\ C11_Set(client) = {"peer_connection_factory_", "peer_connection_"}

----------------------------------------------------------------------------
(* C12 *)

C12_InitializedLines ==
    {"Windows networking initialized",
     "Running in DEMO mode (WebRTC headers not available)",
     "Showing real WebRTC source code patterns",
     "Running with REAL WebRTC libraries",
     "Using actual WebRTC C++ source code",
     "WebRTC Client initialized!",
     "WebRTC Client initialized (stub version)!"}

C12_RunOrder(p) ==
    <<"main", "constructor", "Run">>
    \o (IF p = "real" THEN <<"InitializeWebRTC">> ELSE <<>>)
    \o <<"CreatePeerConnection", "AddVideoStream", "AddAudioStream",
         "StartVideoCapture", "CreateOffer", "RenderVideo",
         "banner", "prompt", "cin.get", "destructor", "return">>

\* C12: when the socket-layer start in the constructor fails, the constructor
\* writes "Failed to initialize Windows networking" to standard error and
\* returns without printing any of its "initialized" lines; the object is
\* constructed all the same: Run then performs its full step sequence, the
\* destructor still calls the socket-layer stop, which finds no started layer,
\* and main returns 0.
C12_StartFailureNotPropagated ==
    SocketStart(wsaLog) = "WSAStartup:error" =>
        /\ win32
        /\ wsaRefs = 0
        /\ err = <<"Failed to initialize Windows networking">>
        /\ \A k \in DOMAIN out : out[k] \notin C12_InitializedLines
        /\ exc = ""
        /\ pc \notin {"main", "construct"}
        /\ IsPrefix(Names, C12_RunOrder(prog))
        /\ Called("destructor") =>
              wsaLog = <<"WSAStartup:error", "WSACleanup:WSANOTINITIALISED">>
        /\ pc = "done" =>
              /\ Names = C12_RunOrder(prog)
              /\ Len(reads) = 1
              /\ out[Len(out)] = "Press Enter to exit..."
              /\ Len(wsaLog) = 2
              /\ exitCode = 0

C12_Witness ==
    /\ win32
    /\ prog = "stub"
    /\ pc = "done"
    /\ wsaLog = <<"WSAStartup:error", "WSACleanup:WSANOTINITIALISED">>
    /\ err = <<"Failed to initialize Windows networking">>
    /\ Called("RenderVideo") /\ Called("cin.get")
    /\ exitCode = 0

====
